---- MODULE Spec2Model ----
(***************************************************************************)
(* A model of oaht.h, the open addressing hash table, in the configuration *)
(* of test.c: int keys, int values, int hashes, OAHT_HASH(x) = x - 5, the  *)
(* hash stored in every entry, asserts enabled, the default OOM policy,    *)
(* and with OAHT_MIN_CAPACITY defined as 4.                                *)
(***************************************************************************)
EXTENDS Integers, Sequences, FiniteSets, TLC

(* ---------------- bounds of the model ---------------- *)

\* number of distinct keys the caller draws from (the keys of large_table_test)
MaxKeys == 5
\* number of keys the caller stores with two different values
MaxRewritten == 1
\* create_presized is called by the caller with min_size in 0..MaxMinSize
MaxMinSize == 17

(* ---------------- configuration macros ---------------- *)

\* "Minimum capacity, must be a power of 2": a configuration macro, 8 unless
\* defined.  The model is the build with -DOAHT_MIN_CAPACITY=4.
OAHT_MIN_CAPACITY == 4
OAHT_EMPTY_KEY == 0
OAHT_DELETED_KEY == -1
\* (a->used > 50000 ? 2 : 4)
GrowthLimit == 50000

OAHT_IS_EMPTY_KEY(key) == key = OAHT_EMPTY_KEY
OAHT_IS_DELETED_KEY(key) == key = OAHT_DELETED_KEY
OAHT_KEY_EQUALS(x, y) == x = y
OAHT_HASH(x) == x - 5

(* ---------------- machine arithmetic ---------------- *)

\* x & y on non-negative integers
RECURSIVE BitAnd(_, _)
BitAnd(x, y) ==
    IF x = 0 \/ y = 0 THEN 0
    ELSE (x % 2) * (y % 2) + 2 * BitAnd(x \div 2, y \div 2)

\* hash & a->mask: the int hash is converted to unsigned (mod 2^32); the mask
\* is below 2^16, so only the low 16 bits of the converted hash matter.
HashAndMask(hash, mask) == BitAnd(hash % 65536, mask)

\* OAHT_SIZE_T is unsigned int: 32 bits, kept as two 16-bit limbs.
ToSizeT(n) == [hi |-> (n \div 65536) % 65536, lo |-> n % 65536]
SizeTLess(x, y) == x.hi < y.hi \/ (x.hi = y.hi /\ x.lo < y.lo)
\* x * 2 in OAHT_SIZE_T, wrapping at 2^32
SizeTTimes2(x) ==
    [hi |-> (x.hi * 2 + (x.lo * 2) \div 65536) % 65536, lo |-> (x.lo * 2) % 65536]

(* ---------------- the caller's inputs ---------------- *)

\* map_to_some_odd_number of test.c
map_to_some_odd_number(n) == BitAnd(n * 234, 1048575) + 1

KeyIndices == 0 .. MaxKeys - 1
\* int k = map_to_some_odd_number(i)
KeyOf == [n \in KeyIndices |-> map_to_some_odd_number(n)]
UserKeys == { KeyOf[n] : n \in KeyIndices }
SentinelKeys == { OAHT_EMPTY_KEY, OAHT_DELETED_KEY }
Keys == UserKeys \cup SentinelKeys
\* large_table_test stores the value n under the n-th key; the caller also
\* stores n + 100 under each of the first MaxRewritten keys
ValuesOf(key) ==
    IF key \in SentinelKeys THEN {0}
    ELSE LET n == CHOOSE m \in KeyIndices : KeyOf[m] = key IN
         IF n < MaxRewritten THEN {n, n + 100} ELSE {n}
\* the defaults the tests pass to oaht_get
Defaults == {-1, 999}
\* the arguments of the caller's oaht_create_presized call: small ones, and
\* 2^31, 2^31 + 1 and 2^32 - 1
MinSizes ==
    { ToSizeT(n) : n \in 0 .. MaxMinSize }
    \cup { [hi |-> 32768, lo |-> 0], [hi |-> 32768, lo |-> 1], [hi |-> 65535, lo |-> 65535] }

(* ---------------- tables ---------------- *)

NULL == -1
\* the result of a loop that never exits
NoReturn == -2
\* the result of the size computation when OAHT_OOM() is invoked
OOM == -3
NoTable == [fill |-> 0, used |-> 0, mask |-> 0, els |-> << >>]
NoSize == [hi |-> -1, lo |-> -1]

\* struct oaht_entry after memset(a, 0, ...)
ZeroEntry == [hash |-> 0, key |-> 0, value |-> 0]

\* the while loop of oaht_create_presized: the size, or OOM
RECURSIVE presized_size(_, _)
presized_size(size, min_size) ==
    IF SizeTLess(ToSizeT(size), min_size)
    THEN IF size < OAHT_MIN_CAPACITY
         THEN OOM
         ELSE presized_size(size, SizeTTimes2(min_size))
    ELSE size

\* the table oaht_create_presized returns for the computed size
presized_table(size) ==
    [fill |-> 0, used |-> 0, mask |-> size - 1,
     els |-> [p \in 0 .. size - 1 |-> ZeroEntry]]

\* oaht_create_presized: pc is "idle" with the new table, or "oom"
oaht_create_presized(min_size, alloc_ok) ==
    LET size == presized_size(OAHT_MIN_CAPACITY, min_size) IN
    IF size = OOM \/ ~alloc_ok
    THEN [pc |-> "oom", tab |-> NoTable]
    ELSE [pc |-> "idle", tab |-> presized_table(size)]

oaht_len(t) == t.used

\* the while (1) loop of oaht_lookup_helper; n counts the slots not yet
\* visited.  The loop reads only, so once every slot has been visited
\* without a return, no later iteration returns either.
RECURSIVE lookup_loop(_, _, _, _, _, _)

\* the loop returning the first tombstone it meets, instead of remembering it
\* in freeslot and probing on for the key
lookup_loop_takes_tombstone(t, key, hash, pos, freeslot, n) ==
    IF n = 0 THEN NoReturn
    ELSE IF OAHT_IS_EMPTY_KEY(t.els[pos].key) \/ OAHT_IS_DELETED_KEY(t.els[pos].key)
    THEN pos
    ELSE IF OAHT_KEY_EQUALS(t.els[pos].key, key)
    THEN pos
    ELSE lookup_loop(t, key, hash, BitAnd(pos + 1, t.mask), freeslot, n - 1)

lookup_loop(t, key, hash, pos, freeslot, n) ==
    IF n = 0 THEN NoReturn
    ELSE IF OAHT_IS_EMPTY_KEY(t.els[pos].key)
    THEN (IF freeslot # NULL THEN freeslot ELSE pos)
    ELSE IF OAHT_KEY_EQUALS(t.els[pos].key, key)
            \/ (/\ t.els[pos].hash = hash
                /\ ~OAHT_IS_DELETED_KEY(t.els[pos].key)
                /\ OAHT_KEY_EQUALS(t.els[pos].key, key))
    THEN pos
    ELSE lookup_loop(t, key, hash, BitAnd(pos + 1, t.mask),
                     IF OAHT_IS_DELETED_KEY(t.els[pos].key) /\ freeslot = NULL
                     THEN pos ELSE freeslot,
                     n - 1)

\* oaht_lookup_helper without assert(!OAHT_IS_DELETED_KEY(key))
lookup_asserts_only_empty(key) == ~OAHT_IS_EMPTY_KEY(key)

\* the two asserts at the head of oaht_lookup_helper
lookup_asserts(key) == ~OAHT_IS_EMPTY_KEY(key) /\ ~OAHT_IS_DELETED_KEY(key)

\* oaht_lookup_helper: the index of the returned entry, or NoReturn
oaht_lookup_helper(t, key, hash) ==
    lookup_loop(t, key, hash, HashAndMask(hash, t.mask), NULL, t.mask + 1)

\* oaht_contains: 1, 0 or NoReturn
oaht_contains(t, key) ==
    LET e == oaht_lookup_helper(t, key, OAHT_HASH(key)) IN
    IF e = NoReturn THEN NoReturn
    ELSE IF ~OAHT_IS_EMPTY_KEY(t.els[e].key) /\ ~OAHT_IS_DELETED_KEY(t.els[e].key)
    THEN 1 ELSE 0

\* oaht_get: the value, the default or NoReturn
oaht_get(t, key, default_value) ==
    LET entry == oaht_lookup_helper(t, key, OAHT_HASH(key)) IN
    IF entry = NoReturn THEN NoReturn
    ELSE IF OAHT_IS_EMPTY_KEY(t.els[entry].key) \/ OAHT_IS_DELETED_KEY(t.els[entry].key)
    THEN default_value
    ELSE t.els[entry].value

\* oaht_iter without the test for OAHT_IS_DELETED_KEY: tombstones are yielded
RECURSIVE oaht_iter_yields_deleted(_, _)
oaht_iter_yields_deleted(t, pos) ==
    IF pos <= t.mask
    THEN IF OAHT_IS_EMPTY_KEY(t.els[pos].key)
         THEN oaht_iter_yields_deleted(t, pos + 1)
         ELSE <<pos + 1, t.els[pos].key, t.els[pos].value>>
    ELSE <<0, 0, 0>>

\* oaht_iter: <<returned cursor, *k, *v>>; k and v are left alone (0 here)
\* when 0 is returned
RECURSIVE oaht_iter(_, _)
oaht_iter(t, pos) ==
    IF pos <= t.mask
    THEN IF OAHT_IS_EMPTY_KEY(t.els[pos].key) \/ OAHT_IS_DELETED_KEY(t.els[pos].key)
         THEN oaht_iter(t, pos + 1)
         ELSE <<pos + 1, t.els[pos].key, t.els[pos].value>>
    ELSE <<0, 0, 0>>

\* for (i = 0; i = oaht_iter(tab, i, &k, &v);) of iter_test: the results of
\* all the calls, the last one being the call that returned 0.  The cursor
\* grows with every call, so mask + 2 calls are enough.
RECURSIVE iter_loop(_, _, _)
iter_loop(t, cursor, n) ==
    LET r == oaht_iter(t, cursor) IN
    IF r[1] = 0 \/ n = 0 THEN <<r>>
    ELSE <<r>> \o iter_loop(t, r[1], n - 1)

\* oaht_set with a->fill++ moved out of the test for an empty key: a
\* tombstone that is taken over is counted in fill a second time
set_count_fills_tombstone(t, entry) ==
    IF OAHT_IS_EMPTY_KEY(t.els[entry].key) \/ OAHT_IS_DELETED_KEY(t.els[entry].key)
    THEN [t EXCEPT !.used = t.used + 1, !.fill = t.fill + 1]
    ELSE t

\* the counters of oaht_set: if (OAHT_IS_EMPTY_KEY(entry->key)) { a->used++;
\* a->fill++; } else if (OAHT_IS_DELETED_KEY(entry->key)) { a->used++; }
set_count(t, entry) ==
    IF OAHT_IS_EMPTY_KEY(t.els[entry].key)
    THEN [t EXCEPT !.used = t.used + 1, !.fill = t.fill + 1]
    ELSE IF OAHT_IS_DELETED_KEY(t.els[entry].key)
    THEN [t EXCEPT !.used = t.used + 1]
    ELSE t

\* oaht_set with entry->value = value moved into the branch of a new entry:
\* the value of a key that is already stored is not replaced
set_write_keeps_value(t, entry, key, hash, value) ==
    LET isnew == OAHT_IS_EMPTY_KEY(t.els[entry].key) \/ OAHT_IS_DELETED_KEY(t.els[entry].key)
        used == IF isnew THEN t.used + 1 ELSE t.used
        fill == IF OAHT_IS_EMPTY_KEY(t.els[entry].key) THEN t.fill + 1 ELSE t.fill
    IN [t EXCEPT !.used = used, !.fill = fill,
                 !.els[entry] = [hash |-> hash, key |-> key,
                                 value |-> IF isnew THEN value ELSE t.els[entry].value]]

\* the entry written by oaht_set and the counters
set_write(t, entry, key, hash, value) ==
    [set_count(t, entry) EXCEPT
        !.els[entry] = [hash |-> hash, key |-> key, value |-> value]]

\* the resize test with a->used for a->fill: tombstones are not counted
resize_needed_counts_used(t) == t.used * 3 >= (t.mask + 1) * 2

\* if (a->fill * 3 >= (a->mask + 1) * 2)
resize_needed(t) == t.fill * 3 >= (t.mask + 1) * 2

\* (a->used > 50000 ? 2 : 4) * a->used
resize_min_size(t) == (IF t.used > GrowthLimit THEN 2 ELSE 4) * t.used

\* the copy loop of oaht_resize from index idx on; tabs is the new table at
\* the head of every iteration so far.  pc is "idle" when the loop ends,
\* "hung" when a lookup in the new table does not return, "assert_failed"
\* when assert(OAHT_IS_EMPTY_KEY(eb->key)) fails.
RECURSIVE resize_loop(_, _, _)

\* the copy loop with i < a->mask for i <= a->mask: the last entry of the
\* old table is not copied
resize_loop_skips_last(t, tabs, idx) ==
    LET nb == tabs[Len(tabs)] IN
    IF idx >= t.mask THEN [pc |-> "idle", tabs |-> tabs]
    ELSE LET ea == t.els[idx] IN
         IF OAHT_IS_EMPTY_KEY(ea.key) \/ OAHT_IS_DELETED_KEY(ea.key)
         THEN resize_loop(t, tabs, idx + 1)
         ELSE LET eb == oaht_lookup_helper(nb, ea.key, ea.hash) IN
              IF eb = NoReturn THEN [pc |-> "hung", tabs |-> tabs]
              ELSE IF ~OAHT_IS_EMPTY_KEY(nb.els[eb].key)
              THEN [pc |-> "assert_failed", tabs |-> tabs]
              ELSE resize_loop(t, Append(tabs, [nb EXCEPT !.els[eb] = ea]), idx + 1)

resize_loop(t, tabs, idx) ==
    LET nb == tabs[Len(tabs)] IN
    IF idx > t.mask THEN [pc |-> "idle", tabs |-> tabs]
    ELSE LET ea == t.els[idx] IN
         IF OAHT_IS_EMPTY_KEY(ea.key) \/ OAHT_IS_DELETED_KEY(ea.key)
         THEN resize_loop(t, tabs, idx + 1)
         ELSE LET eb == oaht_lookup_helper(nb, ea.key, ea.hash) IN
              IF eb = NoReturn THEN [pc |-> "hung", tabs |-> tabs]
              ELSE IF ~OAHT_IS_EMPTY_KEY(nb.els[eb].key)
              THEN [pc |-> "assert_failed", tabs |-> tabs]
              ELSE resize_loop(t, Append(tabs, [nb EXCEPT !.els[eb] = ea]), idx + 1)

\* oaht_resize with b->fill = a->fill: the tombstones that are not copied
\* stay counted
oaht_resize_keeps_fill(t, min_size, alloc_ok) ==
    LET c == oaht_create_presized(min_size, alloc_ok) IN
    IF c.pc = "oom" THEN [pc |-> "oom", tabs |-> << >>]
    ELSE resize_loop(t, << [c.tab EXCEPT !.used = t.used, !.fill = t.fill] >>, 0)

\* oaht_resize(a, min_size): pc and the new table at every step
oaht_resize(t, min_size, alloc_ok) ==
    LET c == oaht_create_presized(min_size, alloc_ok) IN
    IF c.pc = "oom" THEN [pc |-> "oom", tabs |-> << >>]
    ELSE resize_loop(t, << [c.tab EXCEPT !.used = t.used, !.fill = t.used] >>, 0)

\* oaht_delete with the key set to OAHT_EMPTY_KEY: the entry is emptied, no
\* tombstone is left
delete_mark_empties(entry) == [entry EXCEPT !.key = OAHT_EMPTY_KEY]

\* entry->key = OAHT_DELETED_KEY
delete_mark(entry) == [entry EXCEPT !.key = OAHT_DELETED_KEY]

\* oaht_delete without a->used--
delete_entry_keeps_used(t, entry) ==
    IF ~OAHT_IS_EMPTY_KEY(t.els[entry].key) /\ ~OAHT_IS_DELETED_KEY(t.els[entry].key)
    THEN [t EXCEPT !.els[entry].key = OAHT_DELETED_KEY]
    ELSE t

\* the body of oaht_delete after the lookup
delete_entry(t, entry) ==
    IF ~OAHT_IS_EMPTY_KEY(t.els[entry].key) /\ ~OAHT_IS_DELETED_KEY(t.els[entry].key)
    THEN [t EXCEPT !.els[entry] = delete_mark(t.els[entry]), !.used = t.used - 1]
    ELSE t

(* ---------------- storage blocks ---------------- *)

\* The blocks of one call: "old" is the block of the table passed in, "new"
\* the block oaht_resize allocates.  A block is "none" (not allocated),
\* "live" or "freed"; fault records the first misuse.
mem_fault(h, what) == IF h.fault = "none" THEN [h EXCEPT !.fault = what] ELSE h

\* one memory event of the code: OAHT_ALLOC, a read or write through a
\* pointer into the block, OAHT_FREE
mem_apply(h, e) ==
    IF e.op = "alloc" THEN [h EXCEPT ![e.blk] = "live"]
    ELSE IF e.op = "free"
    THEN (IF h[e.blk] = "live" THEN [h EXCEPT ![e.blk] = "freed"]
          ELSE mem_fault(h, "double_free"))
    ELSE (IF h[e.blk] = "live" THEN h ELSE mem_fault(h, "use_after_free"))

RECURSIVE mem_run(_, _)
mem_run(h, events) ==
    IF events = << >> THEN h
    ELSE mem_run(mem_apply(h, Head(events)), Tail(events))

\* b->used = b->fill = a->used, and then one memcpy(eb, ea, ...) for every
\* entry that is copied: n reads of the old block, each followed by a write
\* of the new one
copy_events(n) ==
    [i \in 1 .. 2 * n |-> IF i % 2 = 1 THEN [op |-> "read", blk |-> "old"]
                                       ELSE [op |-> "write", blk |-> "new"]]

\* oaht_resize with OAHT_FREE(a, ...) moved before the copy loop
oaht_resize_mem_frees_first(r) ==
    IF r.pc = "oom" THEN << >>
    ELSE << [op |-> "alloc", blk |-> "new"] >>
         \o (IF r.pc = "idle" THEN << [op |-> "free", blk |-> "old"] >> ELSE << >>)
         \o copy_events(Len(r.tabs))

\* the memory events of an oaht_resize that ended as r: the allocation in
\* oaht_create_presized (none when OAHT_OOM was called), the copies, and the
\* OAHT_FREE of the old table when the copy loop has ended
oaht_resize_mem(r) ==
    IF r.pc = "oom" THEN << >>
    ELSE << [op |-> "alloc", blk |-> "new"] >>
         \o copy_events(Len(r.tabs))
         \o (IF r.pc = "idle" THEN << [op |-> "free", blk |-> "old"] >> ELSE << >>)

\* the heap after a call that reads or writes the table the caller holds
mem_touch(h) ==
    IF h.held = "live" THEN h ELSE mem_fault(h, "use_after_free")

\* the heap after the oaht_resize of a call of the caller: the caller
\* holds the new block when the call returned and the old one otherwise;
\* the other block is lost when it is live
mem_resize(h, r) ==
    LET m == mem_run([old |-> h.held, new |-> "none", fault |-> h.fault],
                     oaht_resize_mem(r)) IN
    IF r.pc = "idle"
    THEN [held |-> m.new, lost |-> h.lost + (IF m.old = "live" THEN 1 ELSE 0),
          fault |-> m.fault]
    ELSE [held |-> m.old, lost |-> h.lost + (IF m.new = "live" THEN 1 ELSE 0),
          fault |-> m.fault]

\* the heap after oaht_destroy
mem_destroy(h) ==
    IF h.held = "live" THEN [h EXCEPT !.held = "freed"]
    ELSE mem_fault(h, "double_free")

(* ---------------- state ---------------- *)

VARIABLES
    a,        \* the table the caller holds
    pc,       \* "idle", or how the last call ended instead of returning:
              \* "hung", "assert_failed", "oom"; "destroyed" after
              \* oaht_destroy
    lastOp,   \* the last call of the caller that changed the table or did
              \* not return: op, key, value, and the kind of entry its
              \* lookup returned
    min_size, \* the argument of oaht_create_presized in the last call, or NoSize
    visited,  \* the results of the oaht_iter calls of the last call
    expect,   \* what the caller has stored: key -> {value}, {} when nothing
    loading,  \* the run is oaht_create() and then oaht_set calls of keys not
              \* stored before (and reads), as in large_table_test
    heap      \* held: the block of the caller's handle, "none", "live" or
              \* "freed"; lost: the number of live blocks no handle points
              \* to; fault: "none", "use_after_free" or "double_free"

vars == <<a, pc, lastOp, min_size, visited, expect, loading, heap>>

\* the state after oaht_create_presized(m)
Init ==
    \E m \in MinSizes, alloc_ok \in BOOLEAN :
        LET c == oaht_create_presized(m, alloc_ok) IN
        /\ min_size = m
        /\ a = c.tab
        /\ pc = c.pc
        /\ lastOp = [op |-> "create", key |-> 0, value |-> 0, kind |-> "none"]
        /\ visited = << >>
        /\ expect = [k \in UserKeys |-> {}]
        /\ loading = (m = ToSizeT(OAHT_MIN_CAPACITY) /\ alloc_ok)
        /\ heap = [held |-> IF c.pc = "idle" THEN "live" ELSE "none",
                   lost |-> 0, fault |-> "none"]

\* what the entry that a lookup for key returns is, before the call uses it
entry_kind(t, key) ==
    IF ~lookup_asserts(key) THEN "none"
    ELSE LET entry == oaht_lookup_helper(t, key, OAHT_HASH(key)) IN
         IF entry = NoReturn THEN "none"
         ELSE IF OAHT_IS_EMPTY_KEY(t.els[entry].key) THEN "empty"
         ELSE IF OAHT_IS_DELETED_KEY(t.els[entry].key) THEN "tombstone"
         ELSE "occupied"

\* oaht_set(a, key, value); a1 is the table after the write, r the outcome
\* of oaht_resize
Set(key, value, alloc_ok) ==
    /\ pc = "idle"
    /\ lastOp' = [op |-> "set", key |-> key, value |-> value,
                  kind |-> entry_kind(a, key)]
    /\ visited' = << >>
    /\ loading' = (loading /\ key \in UserKeys /\ expect[key] = {})
    /\ IF ~lookup_asserts(key)
       THEN /\ pc' = "assert_failed"
            /\ min_size' = NoSize
            /\ UNCHANGED <<a, expect, heap>>
       ELSE \E hash \in {OAHT_HASH(key)} :
            \E entry \in {oaht_lookup_helper(a, key, hash)} :
            IF entry = NoReturn
            THEN /\ pc' = "hung"
                 /\ min_size' = NoSize
                 /\ heap' = mem_touch(heap)
                 /\ UNCHANGED <<a, expect>>
            ELSE \E a1 \in {set_write(a, entry, key, hash, value)} :
                 /\ expect' = [expect EXCEPT ![key] = {value}]
                 /\ IF resize_needed(a1)
                    THEN \E r \in {oaht_resize(a1, ToSizeT(resize_min_size(a1)), alloc_ok)} :
                         /\ min_size' = ToSizeT(resize_min_size(a1))
                         /\ pc' = r.pc
                         /\ a' = IF r.pc = "idle" THEN r.tabs[Len(r.tabs)] ELSE a1
                         /\ heap' = mem_resize(mem_touch(heap), r)
                    ELSE /\ alloc_ok
                         /\ min_size' = NoSize
                         /\ a' = a1
                         /\ heap' = mem_touch(heap)
                         /\ UNCHANGED pc

\* oaht_delete(a, key)
Delete(key) ==
    /\ pc = "idle"
    /\ lastOp' = [op |-> "delete", key |-> key, value |-> 0,
                  kind |-> entry_kind(a, key)]
    /\ visited' = << >>
    /\ min_size' = NoSize
    /\ loading' = FALSE
    /\ IF ~lookup_asserts(key)
       THEN pc' = "assert_failed" /\ UNCHANGED <<a, expect, heap>>
       ELSE \E entry \in {oaht_lookup_helper(a, key, OAHT_HASH(key))} :
            IF entry = NoReturn
            THEN pc' = "hung" /\ heap' = mem_touch(heap) /\ UNCHANGED <<a, expect>>
            ELSE /\ expect' = [expect EXCEPT ![key] = {}]
                 /\ UNCHANGED pc
                 /\ a' = delete_entry(a, entry)
                 /\ heap' = mem_touch(heap)

\* one pass of oaht_iter calls over the table, as in iter_test
IterPass ==
    /\ pc = "idle"
    /\ lastOp' = [op |-> "iter", key |-> 0, value |-> 0, kind |-> "none"]
    /\ min_size' = NoSize
    /\ visited' = iter_loop(a, 0, a.mask + 1)
    /\ heap' = mem_touch(heap)
    /\ UNCHANGED <<a, pc, expect, loading>>

\* a call that only looks the key up and reads the entry: it changes
\* nothing when it returns
Read(op, key) ==
    /\ pc = "idle"
    /\ IF ~lookup_asserts(key)
       THEN /\ pc' = "assert_failed"
            /\ lastOp' = [op |-> op, key |-> key, value |-> 0, kind |-> "none"]
            /\ min_size' = NoSize
            /\ visited' = << >>
            /\ UNCHANGED <<a, expect, loading, heap>>
       ELSE IF oaht_lookup_helper(a, key, OAHT_HASH(key)) = NoReturn
       THEN /\ pc' = "hung"
            /\ lastOp' = [op |-> op, key |-> key, value |-> 0, kind |-> "none"]
            /\ min_size' = NoSize
            /\ visited' = << >>
            /\ heap' = mem_touch(heap)
            /\ UNCHANGED <<a, expect, loading>>
       ELSE heap' = mem_touch(heap)
            /\ UNCHANGED <<a, pc, lastOp, min_size, visited, expect, loading>>

\* oaht_get(a, key, default_value)
Get(key) == Read("get", key)

\* oaht_contains(a, key)
Contains(key) == Read("contains", key)

\* oaht_destroy(a): the block is freed and the caller has no table any more
Destroy ==
    /\ pc = "idle"
    /\ pc' = "destroyed"
    /\ lastOp' = [op |-> "destroy", key |-> 0, value |-> 0, kind |-> "none"]
    /\ min_size' = NoSize
    /\ visited' = << >>
    /\ loading' = FALSE
    /\ expect' = [k \in UserKeys |-> {}]
    /\ a' = NoTable
    /\ heap' = mem_destroy(heap)

Next ==
    \/ \E key \in Keys, alloc_ok \in BOOLEAN :
          \E value \in ValuesOf(key) : Set(key, value, alloc_ok)
    \/ \E key \in Keys : Delete(key)
    \/ IterPass
    \/ \E key \in Keys : Get(key)
    \/ \E key \in Keys : Contains(key)
    \/ Destroy

Spec == Init /\ [][Next]_vars

(* ---------------- what the claims speak about ---------------- *)

IsEmptySlot(t, p) == OAHT_IS_EMPTY_KEY(t.els[p].key)
IsTombstone(t, p) == OAHT_IS_DELETED_KEY(t.els[p].key)
IsOccupied(t, p) == ~IsEmptySlot(t, p) /\ ~IsTombstone(t, p)
Slots(t) == 0 .. t.mask
Capacity(t) == t.mask + 1
HasEmptySlot(t) == \E p \in Slots(t) : IsEmptySlot(t, p)
Stored == { k \in UserKeys : expect[k] # {} }
Returned == pc = "idle"
\* the last call was an oaht_set that called oaht_resize and got memory
Resized == lastOp.op = "set" /\ min_size # NoSize /\ pc # "oom"
\* this step is an oaht_set that calls oaht_resize and gets memory
ResizeStep == pc = "idle" /\ lastOp'.op = "set" /\ min_size' # NoSize /\ pc' # "oom"
\* the table of the oaht_set of this step just after the entry was written
Written ==
    set_write(a, oaht_lookup_helper(a, lastOp'.key, OAHT_HASH(lastOp'.key)),
              lastOp'.key, OAHT_HASH(lastOp'.key), lastOp'.value)
\* the new table at every step of the resize of this step
ResizeTabs == oaht_resize(Written, min_size', TRUE).tabs

\* C1: a key that was set is found by get with the value it was last set to,
\* for every default, after any later calls on other keys, until it is
\* deleted or set again
C1_SetThenGet ==
    Returned =>
        \A k \in Stored, d \in Defaults : {oaht_get(a, k, d)} = expect[k]

\* a key set earlier is still found after the table has been resized (it is
\* two thirds full) and another key has then been deleted
C1_Witness ==
    /\ Returned
    /\ lastOp.op = "delete"
    /\ a.fill * 3 >= Capacity(a) * 2
    /\ \E p \in Slots(a) : IsTombstone(a, p) /\ a.els[p].hash = OAHT_HASH(lastOp.key)
    /\ \E k \in Stored : k # lastOp.key /\ {oaht_get(a, k, 999)} = expect[k]

\* C2: after delete(t, k) has returned, get(k, d) returns d for every default
\* and contains(k) is false
C2_DeleteThenAbsent ==
    (Returned /\ lastOp.op = "delete" /\ lastOp.key \in UserKeys) =>
        /\ \A d \in Defaults : oaht_get(a, lastOp.key, d) = d
        /\ oaht_contains(a, lastOp.key) = 0

\* C3: len is the number of keys for which contains is true
C3_LenCountsContained ==
    Returned =>
        oaht_len(a) = Cardinality({ k \in UserKeys : oaht_contains(a, k) = 1 })

\* a table with two keys and a tombstone, a delete having just returned
C3_Witness ==
    /\ Returned
    /\ lastOp.op = "delete"
    /\ oaht_len(a) = 2
    /\ a.fill > a.used
    /\ \E k \in UserKeys : oaht_contains(a, k) = 0

\* C4: after oaht_create(), every set of a key not stored before returns,
\* len is the number of keys inserted and every inserted key is found by get
\* with its value (the allocations succeeding)
C4_LoadDistinctKeys ==
    (loading /\ pc # "oom") =>
        /\ Returned
        /\ oaht_len(a) = Cardinality(Stored)
        /\ \A k \in Stored, d \in Defaults : {oaht_get(a, k, d)} = expect[k]

\* C5: the table a mutation returns has fill * 3 < capacity * 2
C5_UnderLoadFactor ==
    (Returned /\ lastOp.op \in {"set", "delete"}) =>
        a.fill * 3 < Capacity(a) * 2

\* C6: every table has an Empty slot: the one the caller holds, and the new
\* table at every step of a resize
C6_AlwaysAnEmptySlot ==
    /\ [](pc \notin {"oom", "destroyed"} => HasEmptySlot(a))
    /\ [][ResizeStep =>
            \A n \in 1 .. Len(ResizeTabs) : HasEmptySlot(ResizeTabs[n])]_vars

\* C7: every lookup with a non-sentinel key returns: no call hangs, and on
\* the table the caller holds the lookup of every key returns
C7_LookupTerminates ==
    /\ pc # "hung"
    /\ Returned =>
          \A k \in UserKeys : oaht_lookup_helper(a, k, OAHT_HASH(k)) # NoReturn

\* C8: a resize inside set keeps the mapping: get of every key with every
\* default gives on the new table what it gives on the old table just after
\* the write, and the contained keys and len are the same
C8_ResizeKeepsMapping ==
    [][(ResizeStep /\ pc' = "idle") =>
          /\ \A k \in UserKeys, d \in Defaults :
                oaht_get(a', k, d) = oaht_get(Written, k, d)
          /\ \A k \in UserKeys : oaht_contains(a', k) = oaht_contains(Written, k)
          /\ oaht_len(a') = oaht_len(Written)]_vars

\* C9: the capacity of a table that create_presized(min_size) made is the
\* smallest power of two >= min_size and >= OAHT_MIN_CAPACITY, and mask is
\* capacity - 1
C9_SmallestPowerOfTwo ==
    (Returned /\ min_size # NoSize) =>
        LET capacity == a.mask + 1 IN
        /\ \E e \in 0 .. 31 : capacity = 2 ^ e
        /\ capacity >= OAHT_MIN_CAPACITY
        /\ ~SizeTLess(ToSizeT(capacity), min_size)
        /\ \/ capacity = OAHT_MIN_CAPACITY
           \/ SizeTLess(ToSizeT(capacity \div 2), min_size)

\* C10: a pass of iter calls from cursor 0 yields every live entry once and
\* nothing else, with growing non-zero cursors, and ends with one 0
C10_IterPass ==
    (lastOp.op = "iter") =>
        LET n == Len(visited) IN
        /\ n = oaht_len(a) + 1
        /\ visited[n][1] = 0
        /\ \A j \in 1 .. n - 1 :
              /\ visited[j][1] > 0
              /\ j > 1 => visited[j][1] > visited[j - 1][1]
              /\ visited[j][1] - 1 \in Slots(a)
              /\ IsOccupied(a, visited[j][1] - 1)
              /\ visited[j][2] = a.els[visited[j][1] - 1].key
              /\ visited[j][3] = a.els[visited[j][1] - 1].value
              /\ {visited[j][3]} = expect[visited[j][2]]
        /\ \A p \in Slots(a) :
              IsOccupied(a, p) => \E j \in 1 .. n - 1 : visited[j][1] = p + 1
        /\ \A k \in Stored : \E j \in 1 .. n - 1 : visited[j][2] = k

\* a pass over a table with two live entries, a tombstone and an Empty slot
C10_Witness ==
    /\ lastOp.op = "iter"
    /\ Len(visited) >= 3
    /\ \E p \in Slots(a) : IsTombstone(a, p)
    /\ \E p \in Slots(a) : IsEmptySlot(a, p)

\* a step that is an oaht_set of a key that is no sentinel, whose lookup
\* returns
SetStep ==
    /\ pc = "idle"
    /\ lastOp'.op = "set"
    /\ lastOp'.key \in UserKeys
    /\ oaht_lookup_helper(a, lastOp'.key, OAHT_HASH(lastOp'.key)) # NoReturn

\* the key of the entry that the lookup of the step returns
StepEntryKey ==
    a.els[oaht_lookup_helper(a, lastOp'.key, OAHT_HASH(lastOp'.key))].key

\* C11: oaht_set changes the counters by the kind of the entry its lookup
\* returns: an empty entry adds 1 to used and to fill, a tombstone adds 1 to
\* used and leaves fill, an entry of the key leaves both; so len is unchanged
\* by the set of a key that is stored.  The counters are those after the
\* write; the table that is returned has the same used, and the same fill
\* when there was no resize.
C11_SetCounters ==
    [][SetStep =>
        /\ StepEntryKey \notin SentinelKeys => StepEntryKey = lastOp'.key
        /\ Written.used = a.used + (IF StepEntryKey \in SentinelKeys THEN 1 ELSE 0)
        /\ Written.fill = a.fill + (IF OAHT_IS_EMPTY_KEY(StepEntryKey) THEN 1 ELSE 0)
        /\ oaht_len(a') = Written.used
        /\ min_size' = NoSize => a'.fill = Written.fill]_vars

\* a set that has taken over a tombstone and returned without a resize,
\* another tombstone being left
C11_Witness ==
    /\ Returned
    /\ lastOp.op = "set"
    /\ lastOp.kind = "tombstone"
    /\ min_size = NoSize
    /\ a.fill > a.used

\* a step that is an oaht_delete of a key that is no sentinel
DeleteStep ==
    /\ pc = "idle"
    /\ lastOp'.op = "delete"
    /\ lastOp'.key \in UserKeys

\* the slots of t that hold key
SlotsOf(t, key) == { p \in Slots(t) : OAHT_KEY_EQUALS(t.els[p].key, key) }

\* C12: oaht_delete of a key that is not stored and is no sentinel returns
\* and leaves every slot, used, fill and mask as they were, without an error
C12_DeleteAbsentNoOp ==
    [][(DeleteStep /\ SlotsOf(a, lastOp'.key) = {}) =>
        (pc' = "idle" /\ a' = a)]_vars

\* a step that is an oaht_set in which the allocation of oaht_resize fails
SetOomStep == SetStep /\ pc' = "oom"

\* C13, as claimed: when the allocation fails in the resize of an oaht_set,
\* the table the caller holds is in the state it had before the call (same
\* entries, used and fill)
C13_NoPartialMutation ==
    [][SetOomStep => a' = a]_vars

\* C13, amended: when the allocation fails in the resize of an oaht_set,
\* OAHT_OOM is called after the entry has been written and before a new table
\* exists: the table the caller holds has its mask and every other slot as
\* before the call, the entry that the lookup returned holds the hash, the
\* key and the value of the call, and used and fill are counted up by the
\* kind of that entry
C13_OomAfterWrite ==
    [][SetOomStep =>
        LET key == lastOp'.key
            entry == oaht_lookup_helper(a, key, OAHT_HASH(key)) IN
        /\ min_size' # NoSize
        /\ a'.mask = a.mask
        /\ a'.els = [a.els EXCEPT ![entry] = [hash |-> OAHT_HASH(key), key |-> key,
                                              value |-> lastOp'.value]]
        /\ a'.used = a.used + (IF StepEntryKey \in SentinelKeys THEN 1 ELSE 0)
        /\ a'.fill = a.fill + (IF OAHT_IS_EMPTY_KEY(StepEntryKey) THEN 1 ELSE 0)]_vars

\* OAHT_OOM has been called in the resize of a set that had written a new
\* entry: the table left holds the key and is two thirds full or more
C13_Witness ==
    /\ pc = "oom"
    /\ lastOp.op = "set"
    /\ lastOp.kind = "empty"
    /\ a.fill * 3 >= Capacity(a) * 2
    /\ \E p \in SlotsOf(a, lastOp.key) : a.els[p].value = lastOp.value

\* C14: oaht_create_presized(min_size) calls OAHT_OOM and returns no table
\* when min_size is above 2^31, the largest power of two of OAHT_SIZE_T; a
\* table it returns never has a capacity below min_size
C14_OverflowIsOom ==
    lastOp.op = "create" =>
        /\ SizeTLess([hi |-> 32768, lo |-> 0], min_size) => pc = "oom"
        /\ Returned => ~SizeTLess(ToSizeT(Capacity(a)), min_size)

\* the slot of the i-th probe for key: from hash & mask in steps of 1, masked
ProbeSlot(t, key, i) == (HashAndMask(OAHT_HASH(key), t.mask) + i) % Capacity(t)

\* the number of the first probe for key that meets a slot of the set S
FirstProbe(t, key, S) ==
    CHOOSE i \in 0 .. t.mask :
        /\ ProbeSlot(t, key, i) \in S
        /\ \A j \in 0 .. i - 1 : ProbeSlot(t, key, j) \notin S

\* C15: the lookup of a key returns the slot that holds the key when it is
\* stored; otherwise there is a first Empty slot on the probe path and the
\* lookup returns the first Tombstone met before it, or that Empty slot when
\* there is no such Tombstone
C15_LookupResult ==
    Returned =>
        \A key \in UserKeys :
            LET r == oaht_lookup_helper(a, key, OAHT_HASH(key))
                empties == { p \in Slots(a) : IsEmptySlot(a, p) }
                tombs == { p \in Slots(a) : IsTombstone(a, p) } IN
            IF SlotsOf(a, key) # {} THEN r \in SlotsOf(a, key)
            ELSE /\ empties # {}
                 /\ LET e == FirstProbe(a, key, empties)
                        before == { ProbeSlot(a, key, j) : j \in 0 .. e - 1 } IN
                    IF before \cap tombs # {}
                    THEN r = ProbeSlot(a, key, FirstProbe(a, key, before \cap tombs))
                    ELSE r = ProbeSlot(a, key, e)

\* C16: oaht_delete of a key that is stored returns, turns the slot of the
\* key into a Tombstone (hash and value stay), takes 1 from used, and leaves
\* fill, mask and every other slot as they were; it does not resize
C16_DeletePresent ==
    [][(DeleteStep /\ SlotsOf(a, lastOp'.key) # {}) =>
        /\ pc' = "idle"
        /\ min_size' = NoSize
        /\ \E p \in SlotsOf(a, lastOp'.key) :
              a' = [a EXCEPT !.els[p].key = OAHT_DELETED_KEY, !.used = a.used - 1]]_vars

\* a delete of a stored key has returned: its tombstone is in the table,
\* between other keys that are still found
C16_Witness ==
    /\ Returned
    /\ lastOp.op = "delete"
    /\ lastOp.kind = "occupied"
    /\ SlotsOf(a, lastOp.key) = {}
    /\ \E p \in Slots(a) : IsTombstone(a, p) /\ a.els[p].hash = OAHT_HASH(lastOp.key)
    /\ a.used >= 2
    /\ a.fill = a.used + 1

\* the entries of the Occupied slots of t
LiveEntries(t) == { t.els[p] : p \in { q \in Slots(t) : IsOccupied(t, q) } }

\* C17: in every resize each live entry of the old table is put into a slot
\* of the new table that is Empty at that moment, so the assert of the copy
\* loop does not fail and the resize returns; the new table has no Tombstone
\* and used = fill = the used of the old table = the number of its Occupied
\* slots
C17_ResizeReinserts ==
    [][ResizeStep =>
        \A old \in {Written} :
        \A tabs \in {oaht_resize(old, min_size', TRUE).tabs}, live \in {LiveEntries(old)} :
        /\ pc' = "idle"
        /\ Len(tabs) = old.used + 1
        /\ \A n \in 1 .. Len(tabs) - 1 :
              \E p \in Slots(tabs[n]) :
                  /\ IsEmptySlot(tabs[n], p)
                  /\ tabs[n + 1].els[p] \in live
                  /\ tabs[n + 1] = [tabs[n] EXCEPT !.els[p] = tabs[n + 1].els[p]]
        /\ LiveEntries(a') = live
        /\ \A p \in Slots(a') : ~IsTombstone(a', p)
        /\ a'.used = old.used
        /\ a'.fill = old.used
        /\ Cardinality({ p \in Slots(a') : IsOccupied(a', p) }) = old.used]_vars

\* a set that took over a tombstone has resized and returned a table of three
\* keys or more
C17_Witness ==
    /\ Returned
    /\ Resized
    /\ a.used >= 3
    /\ a.fill = a.used
    /\ lastOp.kind = "tombstone"

\* C18: oaht_set resizes exactly when, after its write, fill * 3 >=
\* capacity * 2, and asks for used * 4 when used <= 50000 and for used * 2
\* otherwise; when the test is false the table is the written one, with the
\* capacity it had.  No other call resizes.
C18_ResizeWhen ==
    [][/\ SetStep =>
            \A w \in {Written} :
                IF w.fill * 3 >= Capacity(w) * 2
                THEN min_size' = ToSizeT(IF w.used <= GrowthLimit
                                         THEN w.used * 4 ELSE w.used * 2)
                ELSE min_size' = NoSize /\ a' = w /\ Capacity(a') = Capacity(a)
       /\ (pc = "idle" /\ lastOp'.op \in {"delete", "iter", "get", "contains"}) =>
            (min_size' = NoSize /\ a'.mask = a.mask)]_vars

\* the set of a stored key has resized a table of two keys and a tombstone:
\* it is fill, not used, that reached two thirds of the capacity
C18_Witness ==
    /\ Returned
    /\ lastOp.op = "set"
    /\ lastOp.kind = "occupied"
    /\ min_size = ToSizeT(4 * a.used)
    /\ a.used = 2
    /\ a.fill = 2

\* C19: in every state with a table, fill is the number of slots that are
\* Occupied or Tombstone, used is the number of Occupied slots, and
\* used <= fill <= capacity
C19_CountersMatchSlots ==
    a # NoTable =>
        /\ a.fill = Cardinality({ p \in Slots(a) : ~IsEmptySlot(a, p) })
        /\ a.used = Cardinality({ p \in Slots(a) : IsOccupied(a, p) })
        /\ a.used <= a.fill
        /\ a.fill <= Capacity(a)

\* a delete of a stored key has returned and left a table of one key and two
\* tombstones
C19_Witness ==
    /\ Returned
    /\ lastOp.op = "delete"
    /\ lastOp.kind = "occupied"
    /\ a.used = 1
    /\ a.fill = 3

\* C20: oaht_set, oaht_get, oaht_contains and oaht_delete of a sentinel key
\* (OAHT_EMPTY_KEY or OAHT_DELETED_KEY) end in a failed assert of the lookup,
\* with every slot and counter of the table as before the call
C20_SentinelRejected ==
    [][(/\ pc = "idle"
        /\ lastOp'.op \in {"set", "get", "contains", "delete"}
        /\ lastOp'.key \in SentinelKeys) =>
            (pc' = "assert_failed" /\ a' = a)]_vars

\* the set of OAHT_DELETED_KEY into a table of keys and a tombstone has ended
\* in the failed assert
C20_Witness ==
    /\ pc = "assert_failed"
    /\ lastOp.op = "set"
    /\ OAHT_IS_DELETED_KEY(lastOp.key)
    /\ a.used >= 2
    /\ a.fill > a.used

\* C22: in every state with a table no key is held by two Occupied slots
C22_KeyInOneSlot ==
    a # NoTable =>
        \A key \in UserKeys : Cardinality(SlotsOf(a, key)) <= 1

\* a key that was deleted has been set again into a tombstone that comes
\* before its former slot on its probe path: the next slot is the tombstone
\* the key left, with its hash
C22_Witness ==
    /\ Returned
    /\ lastOp.op = "set"
    /\ lastOp.kind = "tombstone"
    /\ \E p \in SlotsOf(a, lastOp.key) :
          /\ IsTombstone(a, (p + 1) % Capacity(a))
          /\ a.els[(p + 1) % Capacity(a)].hash = OAHT_HASH(lastOp.key)

\* the number of the probe for key that meets slot p
ProbeOf(t, key, p) == (p - HashAndMask(OAHT_HASH(key), t.mask)) % Capacity(t)

\* C23: in every state with a table, for every Occupied slot p with key k, no
\* slot on the probe path of k from hash(k) & mask up to, not including, p is
\* Empty
C23_NoEmptyBeforeKey ==
    a # NoTable =>
        \A p \in Slots(a) :
            IsOccupied(a, p) =>
                \A i \in 0 .. ProbeOf(a, a.els[p].key, p) - 1 :
                    ~IsEmptySlot(a, ProbeSlot(a, a.els[p].key, i))

\* after a delete, a key is held two probes away from its first slot, with a
\* tombstone on the way
C23_Witness ==
    /\ Returned
    /\ lastOp.op = "delete"
    /\ lastOp.kind = "occupied"
    /\ \E p \in Slots(a) :
          /\ IsOccupied(a, p)
          /\ ProbeOf(a, a.els[p].key, p) >= 2
          /\ \E i \in 0 .. ProbeOf(a, a.els[p].key, p) - 1 :
                IsTombstone(a, ProbeSlot(a, a.els[p].key, i))

\* the numbers of the events of the sequence ev that are e
EventsAt(ev, e) == { i \in 1 .. Len(ev) : ev[i] = e }

\* C21: the caller going on with the handle that was returned, the table
\* owns exactly one block at any time: the handle's block is live as long as
\* there is a table, no other block is live, no block is read or written
\* after it is freed or freed twice, and after oaht_destroy no block is
\* live; a resize that returns allocates one block and frees the old one
\* exactly once, as its last event, after the copy of every live entry
C21_OneBlock ==
    /\ [](/\ heap.fault = "none"
          /\ heap.lost = 0
          /\ heap.held = (IF pc = "destroyed" THEN "freed"
                          ELSE IF a = NoTable THEN "none" ELSE "live"))
    /\ [][(ResizeStep /\ pc' = "idle") =>
            \A old \in {Written} :
            \A ev \in {oaht_resize_mem(oaht_resize(old, min_size', TRUE))} :
                /\ EventsAt(ev, [op |-> "alloc", blk |-> "new"]) = {1}
                /\ EventsAt(ev, [op |-> "free", blk |-> "old"]) = {Len(ev)}
                /\ EventsAt(ev, [op |-> "free", blk |-> "new"]) = {}
                /\ Cardinality(EventsAt(ev, [op |-> "write", blk |-> "new"]))
                       = old.used + 1]_vars

\* a resize has returned a table of three keys or more: the caller holds the
\* new block, the only live one
C21_Witness ==
    /\ Returned
    /\ Resized
    /\ a.used >= 3
    /\ heap.held = "live"
    /\ heap.lost = 0

====
